---------------------------- MODULE Spec2Model ----------------------------
(***************************************************************************)
(* A model of the RecursiveDescent expression parser: the regex lexer      *)
(* (lexer.cpp), the recursive descent parser and the AST evaluation        *)
(* (rd_parser.cpp).  A string is a sequence of one-character strings.      *)
(* A thrown exception is a record field `thrown` that every caller         *)
(* propagates unchanged, as stack unwinding does.                          *)
(***************************************************************************)
EXTENDS Integers, Sequences, FiniteSets, TLC

VARIABLES
  expression,         \* Lexer::expression
  token_container,    \* Lexer::token_container
  current_token_idx,  \* RDParser::current_token_idx
  pc,                 \* position inside RDParser::Parse: idle, tokenised, parsed
  expr,               \* the argument of the running (or last) Parse call
  ast,                \* the local `expression` of Parse: the AST root
  outcome,            \* how the last Parse call ended
  trace,              \* the getToken calls and cursor moves of the running call
  evalLog,            \* the enter/leave events of the AST evaluation
  calls               \* how many Parse calls this instance has had

vars == <<expression, token_container, current_token_idx, pc, expr, ast,
          outcome, trace, evalLog, calls>>

(***************************************************************************)
(* Bounds of the model.                                                    *)
(***************************************************************************)
MaxLen == 3
MaxLexLen == 3
MaxCalls == 2
MaxClose == 3

(***************************************************************************)
(* Program constants.                                                      *)
(***************************************************************************)
TOKEN_VALUE_NOT_APPLICABLE == -1
INT_MAX == 2147483647
INT_MIN == (-INT_MAX) - 1
REGEX_TOKEN_PATTERN == "((\\d+|[-+*/()]))"
REGEX_INVALID_TOKEN_PATTERN == "([^0-9+\\- */()])"
UNINITIALISED_EXPRESSION == <<"U", "n", "i", "n", "i", "t">>

NoThrow == "none"

\* A local of the code that holds the result of a call is bound once, as the
\* only element of a set: Only({ ... x ... : x \in {call} }).
Only(S) == CHOOSE x \in S : TRUE

Digits == {"0", "1", "2", "3", "4", "5", "6", "7", "8", "9"}
PunctuationChars == {"-", "+", "*", "/", "(", ")"}
\* a class that lets the tab through as well
InvalidClassExcluded_WithTab == Digits \cup {"+", "-", " ", "\t", "*", "/", "(", ")"}

\* the characters the class [^0-9+\- */()] excludes
InvalidClassExcluded == Digits \cup {"+", "-", " ", "*", "/", "(", ")"}

DigitValue(c) ==
  CASE c = "0" -> 0 [] c = "1" -> 1 [] c = "2" -> 2 [] c = "3" -> 3
    [] c = "4" -> 4 [] c = "5" -> 5 [] c = "6" -> 6 [] c = "7" -> 7
    [] c = "8" -> 8 [] c = "9" -> 9

(***************************************************************************)
(* std::regex matching of the two patterns.  MatchLength is the length of  *)
(* the match that starts at position i of s (0: no match starts there):    *)
(* the invalid pattern matches exactly one character outside its class;    *)
(* the token pattern matches a greedy digit run \d+ or else one of the     *)
(* punctuation characters.                                                 *)
(***************************************************************************)
RECURSIVE DigitRunLength(_, _)
DigitRunLength(s, i) ==
  IF i <= Len(s) /\ s[i] \in Digits THEN 1 + DigitRunLength(s, i + 1) ELSE 0

\* an invalid pattern with a quantifier, [^...]+ : one match for a whole run
RECURSIVE InvalidRunLength(_, _)
InvalidRunLength(s, i) ==
  IF i <= Len(s) /\ s[i] \notin InvalidClassExcluded
  THEN 1 + InvalidRunLength(s, i + 1) ELSE 0

MatchLength_InvalidRuns(pattern, s, i) ==
  IF pattern = REGEX_INVALID_TOKEN_PATTERN THEN InvalidRunLength(s, i)
  ELSE IF s[i] \in Digits THEN DigitRunLength(s, i)
       ELSE IF s[i] \in PunctuationChars THEN 1 ELSE 0

MatchLength(pattern, s, i) ==
  IF pattern = REGEX_INVALID_TOKEN_PATTERN
  THEN IF s[i] \notin InvalidClassExcluded THEN 1 ELSE 0
  ELSE IF s[i] \in Digits THEN DigitRunLength(s, i)
       ELSE IF s[i] \in PunctuationChars THEN 1 ELSE 0

\* std::sregex_iterator: the leftmost match at or after i, then on from its end
RECURSIVE regexIterate(_, _, _)
regexIterate(pattern, s, i) ==
  IF i > Len(s) THEN <<>>
  ELSE Only({ IF n = 0 THEN regexIterate(pattern, s, i + 1)
              ELSE <<SubSeq(s, i, i + n - 1)>> \o regexIterate(pattern, s, i + n)
              : n \in {MatchLength(pattern, s, i)} })

regexFindSubstrings(expression_, pattern) == regexIterate(pattern, expression_, 1)

(***************************************************************************)
(* std::stoi on a digit run: the value, or std::out_of_range when it does  *)
(* not fit an int.                                                         *)
(***************************************************************************)
\* [overflow, value]: the digits read most significant first, against INT_MAX
RECURSIVE DecimalValue(_, _, _)
DecimalValue(raw, k, v) ==
  IF k > Len(raw) THEN [overflow |-> FALSE, value |-> v]
  ELSE IF v > (INT_MAX - DigitValue(raw[k])) \div 10
  THEN [overflow |-> TRUE, value |-> 0]
  ELSE DecimalValue(raw, k + 1, 10 * v + DigitValue(raw[k]))

stoi(raw) ==
  Only({ IF v.overflow THEN [thrown |-> "std::out_of_range", value |-> 0]
         ELSE [thrown |-> NoThrow, value |-> v.value]
         : v \in {DecimalValue(raw, 1, 0)} })

TokenOperationOf(token_type) ==
  CASE token_type = "(" -> "L_Brace"
    [] token_type = ")" -> "R_Brace"
    [] token_type = "-" -> "Subtraction"
    [] token_type = "+" -> "Addition"
    [] token_type = "*" -> "Multiplication"
    [] token_type = "/" -> "Division"
    [] OTHER -> "Literal"

\* the body of the for loop of Tokenise: classify the raw token
MakeToken(raw_token) ==
  LET operation == TokenOperationOf(raw_token[1])
  IN  IF operation # "Literal"
      THEN [thrown |-> NoThrow,
            token |-> [operation |-> operation,
                       value |-> TOKEN_VALUE_NOT_APPLICABLE, raw |-> raw_token]]
      ELSE Only({ [thrown |-> parsed.thrown,
                   token |-> [operation |-> operation,
                              value |-> parsed.value, raw |-> raw_token]]
                  : parsed \in {stoi(raw_token)} })

\* the for loop of Tokenise: push_back each token; stoi may throw half way
RECURSIVE TokeniseLoop(_, _, _)
TokeniseLoop(container, valid_tokens, k) ==
  IF k > Len(valid_tokens) THEN [thrown |-> NoThrow, token_container |-> container]
  ELSE Only({ IF made.thrown # NoThrow
              THEN [thrown |-> made.thrown, token_container |-> container]
              ELSE TokeniseLoop(Append(container, made.token), valid_tokens, k + 1)
              : made \in {MakeToken(valid_tokens[k])} })

\* Lexer::Tokenise on a lexer whose token vector is `container`
Tokenise(container, expr_) ==
  Only({
    IF invalid_tokens # <<>>
    THEN [thrown |-> "InvalidToken", detail |-> invalid_tokens,
          token_container |-> container, expression |-> expr_]
    ELSE Only({
           IF valid_tokens = <<>>
           THEN [thrown |-> "EmptyExpression", detail |-> <<>>,
                 token_container |-> container, expression |-> expr_]
           ELSE Only({ [thrown |-> r.thrown, detail |-> <<>>,
                        token_container |-> r.token_container, expression |-> expr_]
                       : r \in {TokeniseLoop(container, valid_tokens, 1)} })
           : valid_tokens \in {regexFindSubstrings(expr_, REGEX_TOKEN_PATTERN)} })
    : invalid_tokens \in {regexFindSubstrings(expr_, REGEX_INVALID_TOKEN_PATTERN)} })

\* a clearTokens that leaves the token vector as it is
clearTokens_KeepsTokens(container, expression_) ==
  [token_container |-> container, expression |-> UNINITIALISED_EXPRESSION]

\* Lexer::clearTokens
clearTokens(container, expression_) ==
  [token_container |-> <<>>, expression |-> UNINITIALISED_EXPRESSION]

\* Lexer::getToken
getToken(container, token_idx) ==
  IF token_idx < 0 \/ token_idx >= Len(container)
  THEN [thrown |-> "TokenIndexOutOfRange"]
  ELSE [thrown |-> NoThrow, token |-> container[token_idx + 1]]

getTokenCount(container) == Len(container)


(***************************************************************************)
(* The parser.  A parser state st is [idx, trace]: the cursor              *)
(* current_token_idx and the events so far.  Every parse routine returns   *)
(* [thrown, detail, node, idx, trace].                                     *)
(***************************************************************************)
GetTokenEvent(i) == [op |-> "getToken", idx |-> i]
AdvanceEvent(from, to) == [op |-> "advance", idx |-> to, from |-> from]

Throw(kind, detail, st) ==
  [thrown |-> kind, detail |-> detail, node |-> [type |-> "none"],
   idx |-> st.idx, trace |-> st.trace]

Return(node, st) ==
  [thrown |-> NoThrow, detail |-> <<>>, node |-> node,
   idx |-> st.idx, trace |-> st.trace]

After(st, event) == [idx |-> st.idx, trace |-> Append(st.trace, event)]

\* a tokenMatchAndAdvance that does not compare the cursor with the token count
tokenMatchAndAdvance_NoCountCheck(tc, st, operation) ==
  Only({
    IF got.thrown # NoThrow
    THEN [thrown |-> got.thrown, matched |-> FALSE, idx |-> st.idx,
          trace |-> Append(st.trace, GetTokenEvent(st.idx))]
    ELSE IF got.token.operation = operation
    THEN [thrown |-> NoThrow, matched |-> TRUE, idx |-> st.idx + 1,
          trace |-> st.trace \o <<GetTokenEvent(st.idx),
                                  AdvanceEvent(st.idx, st.idx + 1)>>]
    ELSE [thrown |-> NoThrow, matched |-> FALSE, idx |-> st.idx,
          trace |-> Append(st.trace, GetTokenEvent(st.idx))]
    : got \in {getToken(tc, st.idx)} })

\* a tokenMatchAndAdvance that does not compare the token's operation
tokenMatchAndAdvance_AnyOperation(tc, st, operation) ==
  IF st.idx < getTokenCount(tc)
  THEN Only({
         IF got.thrown # NoThrow
         THEN [thrown |-> got.thrown, matched |-> FALSE, idx |-> st.idx,
               trace |-> Append(st.trace, GetTokenEvent(st.idx))]
         ELSE [thrown |-> NoThrow, matched |-> TRUE, idx |-> st.idx + 1,
               trace |-> st.trace \o <<GetTokenEvent(st.idx),
                                       AdvanceEvent(st.idx, st.idx + 1)>>]
         : got \in {getToken(tc, st.idx)} })
  ELSE [thrown |-> NoThrow, matched |-> FALSE, idx |-> st.idx, trace |-> st.trace]

\* RDParser::tokenMatchAndAdvance: [thrown, matched, idx, trace]
tokenMatchAndAdvance(tc, st, operation) ==
  IF st.idx < getTokenCount(tc)
  THEN Only({
         IF got.thrown # NoThrow
         THEN [thrown |-> got.thrown, matched |-> FALSE, idx |-> st.idx,
               trace |-> Append(st.trace, GetTokenEvent(st.idx))]
         ELSE IF got.token.operation = operation
         THEN [thrown |-> NoThrow, matched |-> TRUE, idx |-> st.idx + 1,
               trace |-> st.trace \o <<GetTokenEvent(st.idx),
                                       AdvanceEvent(st.idx, st.idx + 1)>>]
         ELSE [thrown |-> NoThrow, matched |-> FALSE, idx |-> st.idx,
               trace |-> Append(st.trace, GetTokenEvent(st.idx))]
         : got \in {getToken(tc, st.idx)} })
  ELSE [thrown |-> NoThrow, matched |-> FALSE, idx |-> st.idx, trace |-> st.trace]

\* the right operand of || is reached only after a call that returned false
Missed(m) == m.thrown = NoThrow /\ ~m.matched

\* a loop condition that forgets the division
matchBinaryOperator_NoDivision(tc, st) ==
  Only({ IF ~Missed(a) THEN a
         ELSE Only({ IF ~Missed(s) THEN s
                     ELSE tokenMatchAndAdvance(tc, s, "Multiplication")
                     : s \in {tokenMatchAndAdvance(tc, a, "Subtraction")} })
         : a \in {tokenMatchAndAdvance(tc, st, "Addition")} })

\* the loop condition of parseBinary: the four matches, tried in order with ||
matchBinaryOperator(tc, st) ==
  Only({ IF ~Missed(a) THEN a
         ELSE Only({ IF ~Missed(s) THEN s
                     ELSE Only({ IF ~Missed(m) THEN m
                                 ELSE tokenMatchAndAdvance(tc, m, "Division")
                                 : m \in {tokenMatchAndAdvance(tc, s, "Multiplication")} })
                     : s \in {tokenMatchAndAdvance(tc, a, "Subtraction")} })
         : a \in {tokenMatchAndAdvance(tc, st, "Addition")} })

BinaryNode(op, left, right) ==
  [type |-> "Binary", operation |-> op, left |-> left, right |-> right]
UnaryNode(right) == [type |-> "Unary", right |-> right]
LiteralNode(value) == [type |-> "Literal", value |-> value]

RECURSIVE parseExpression(_, _)
RECURSIVE parseBinary(_, _)
RECURSIVE parseBinaryLoop(_, _, _)
RECURSIVE parseUnary(_, _)
RECURSIVE parsePrimary(_, _)

\* a parseBinary whose right operand is a whole Binary: right associative
parseBinaryLoop_RightAssociative(tc, st, left) ==
  Only({
    IF m.thrown # NoThrow THEN Throw(m.thrown, <<>>, m)
    ELSE IF ~m.matched THEN Return(left, m)
    ELSE Only({
           IF previous_token.thrown # NoThrow
           THEN Throw(previous_token.thrown, <<>>, After(m, GetTokenEvent(m.idx - 1)))
           ELSE Only({
                  IF right.thrown # NoThrow THEN right
                  ELSE Return(BinaryNode(previous_token.token.operation,
                                         left, right.node), right)
                  : right \in {parseBinary(tc, After(m, GetTokenEvent(m.idx - 1)))} })
           : previous_token \in {getToken(tc, m.idx - 1)} })
    : m \in {matchBinaryOperator(tc, st)} })

\* the while loop of parseBinary, `left` being the running left-hand side
parseBinaryLoop(tc, st, left) ==
  Only({
    IF m.thrown # NoThrow THEN Throw(m.thrown, <<>>, m)
    ELSE IF ~m.matched THEN Return(left, m)
    ELSE Only({
           IF previous_token.thrown # NoThrow
           THEN Throw(previous_token.thrown, <<>>, After(m, GetTokenEvent(m.idx - 1)))
           ELSE Only({
                  IF right.thrown # NoThrow THEN right
                  ELSE parseBinaryLoop(tc, right,
                         BinaryNode(previous_token.token.operation, left, right.node))
                  : right \in {parseUnary(tc, After(m, GetTokenEvent(m.idx - 1)))} })
           : previous_token \in {getToken(tc, m.idx - 1)} })
    : m \in {matchBinaryOperator(tc, st)} })

\* RDParser::parseBinary
parseBinary(tc, st) ==
  Only({ IF left.thrown # NoThrow THEN left
         ELSE parseBinaryLoop(tc, left, left.node)
         : left \in {parseUnary(tc, st)} })

\* RDParser::parseExpression
parseExpression(tc, st) == parseBinary(tc, st)

\* RDParser::parseUnary
parseUnary(tc, st) ==
  Only({
    IF m.thrown # NoThrow THEN Throw(m.thrown, <<>>, m)
    ELSE IF m.matched
    THEN Only({ IF right.thrown # NoThrow THEN right
                ELSE Return(UnaryNode(right.node), right)
                : right \in {parseUnary(tc, m)} })
    ELSE parsePrimary(tc, m)
    : m \in {tokenMatchAndAdvance(tc, st, "Subtraction")} })

\* a report that does not clamp the index
unexpectedToken_Unclamped(tc, st) ==
  Only({
    IF bad_token.thrown # NoThrow
    THEN Throw(bad_token.thrown, <<>>, After(st, GetTokenEvent(st.idx)))
    ELSE Throw("UnexpectedToken", bad_token.token.raw,
               After(st, GetTokenEvent(st.idx)))
    : bad_token \in {getToken(tc, st.idx)} })

\* the tail of parsePrimary: report the unexpected token, the index clamped
unexpectedToken(tc, st) ==
  LET token_max_index == getTokenCount(tc) - 1
      bad_token_idx == IF st.idx > token_max_index THEN token_max_index ELSE st.idx
  IN  Only({
        IF bad_token.thrown # NoThrow
        THEN Throw(bad_token.thrown, <<>>, After(st, GetTokenEvent(bad_token_idx)))
        ELSE Throw("UnexpectedToken", bad_token.token.raw,
                   After(st, GetTokenEvent(bad_token_idx)))
        : bad_token \in {getToken(tc, bad_token_idx)} })

\* the first branch of parsePrimary, the Literal just consumed
literalPrimary(tc, st) ==
  Only({
    IF got.thrown # NoThrow
    THEN Throw(got.thrown, <<>>, After(st, GetTokenEvent(st.idx - 1)))
    ELSE Return(LiteralNode(got.token.value), After(st, GetTokenEvent(st.idx - 1)))
    : got \in {getToken(tc, st.idx - 1)} })

\* a parsePrimary that does not require the closing parenthesis
parsePrimary_NoCloseCheck(tc, st) ==
  Only({
    IF lit.thrown # NoThrow THEN Throw(lit.thrown, <<>>, lit)
    ELSE IF lit.matched THEN literalPrimary(tc, lit)
    ELSE Only({
           IF lb.thrown # NoThrow THEN Throw(lb.thrown, <<>>, lb)
           ELSE IF lb.matched
           THEN Only({
                  IF inner.thrown # NoThrow THEN inner
                  ELSE Only({ Return(inner.node, rb)
                              : rb \in {tokenMatchAndAdvance(tc, inner, "R_Brace")} })
                  : inner \in {parseExpression(tc, lb)} })
           ELSE unexpectedToken(tc, lb)
           : lb \in {tokenMatchAndAdvance(tc, lit, "L_Brace")} })
    : lit \in {tokenMatchAndAdvance(tc, st, "Literal")} })

\* RDParser::parsePrimary
parsePrimary(tc, st) ==
  Only({
    IF lit.thrown # NoThrow THEN Throw(lit.thrown, <<>>, lit)
    ELSE IF lit.matched THEN literalPrimary(tc, lit)
    ELSE Only({
           IF lb.thrown # NoThrow THEN Throw(lb.thrown, <<>>, lb)
           ELSE IF lb.matched
           THEN Only({
                  IF inner.thrown # NoThrow THEN inner
                  ELSE Only({
                         IF rb.thrown # NoThrow THEN Throw(rb.thrown, <<>>, rb)
                         ELSE IF ~rb.matched
                         THEN Throw("ParenthesesMismatch", <<>>, rb)
                         ELSE Return(inner.node, rb)
                         : rb \in {tokenMatchAndAdvance(tc, inner, "R_Brace")} })
                  : inner \in {parseExpression(tc, lb)} })
           ELSE unexpectedToken(tc, lb)
           : lb \in {tokenMatchAndAdvance(tc, lit, "L_Brace")} })
    : lit \in {tokenMatchAndAdvance(tc, st, "Literal")} })

(***************************************************************************)
(* The evaluation of the AST.  C++ int arithmetic: a result outside        *)
(* [INT_MIN, INT_MAX] is undefined behaviour, which a build either traps   *)
(* (the process dies) or wraps modulo 2^32.  The operands of the built-in  *)
(* + - * are evaluated in an order the language leaves to the build.  A    *)
(* build is [leftFirst, overflowTraps].                                    *)
(***************************************************************************)
\* Each Checked operation gives [overflow, value]: the exact result, or, when
\* that is outside [INT_MIN, INT_MAX], its two's complement wrap-around.
CheckedAdd(l, r) ==
  IF r > 0 /\ l > INT_MAX - r
  THEN [overflow |-> TRUE, value |-> (l + INT_MIN) + (r + INT_MIN)]
  ELSE IF r < 0 /\ l < INT_MIN - r
  THEN [overflow |-> TRUE, value |-> (l - INT_MIN) + (r - INT_MIN)]
  ELSE [overflow |-> FALSE, value |-> l + r]

CheckedNeg(x) ==
  IF x = INT_MIN THEN [overflow |-> TRUE, value |-> INT_MIN]
  ELSE [overflow |-> FALSE, value |-> -x]

CheckedSub(l, r) ==
  IF r = INT_MIN
  THEN IF l >= 0 THEN [overflow |-> TRUE, value |-> l + INT_MIN]
       ELSE [overflow |-> FALSE, value |-> l - r]
  ELSE CheckedAdd(l, -r)

\* l * r modulo 2^32, by doubling
RECURSIVE WrapMul(_, _)
WrapMul(l, r) ==
  IF r = 0 THEN 0
  ELSE IF r = INT_MIN THEN (IF l % 2 = 1 THEN INT_MIN ELSE 0)
  ELSE IF r < 0 THEN CheckedNeg(WrapMul(l, -r)).value
  ELSE Only({ IF r % 2 = 1
              THEN CheckedAdd(CheckedAdd(half, half).value, l).value
              ELSE CheckedAdd(half, half).value
              : half \in {WrapMul(l, r \div 2)} })

\* C++ integer division: truncation toward zero (not INT_MIN / -1)
RECURSIVE TruncDiv(_, _)
TruncDiv(a, b) ==
  IF b = INT_MIN THEN (IF a = INT_MIN THEN 1 ELSE 0)
  ELSE IF b < 0 THEN -TruncDiv(a, -b)
  ELSE LET q == a \div b
       IN  IF a < 0 /\ q * b # a THEN q + 1 ELSE q

CheckedDiv(l, r) ==
  IF l = INT_MIN /\ r = -1 THEN [overflow |-> TRUE, value |-> INT_MIN]
  ELSE [overflow |-> FALSE, value |-> TruncDiv(l, r)]

CheckedMul(l, r) ==
  IF l = 0 \/ r = 0 THEN [overflow |-> FALSE, value |-> 0]
  ELSE Only({
         IF CheckedDiv(w, r).overflow THEN [overflow |-> TRUE, value |-> w]
         ELSE Only({ [overflow |-> ~(q = l /\ WrapMul(q, r) = w), value |-> w]
                     : q \in {TruncDiv(w, r)} })
         : w \in {WrapMul(l, r)} })

\* the int a build yields for a checked result
IntResult(c, build, log) ==
  IF c.overflow /\ build.overflowTraps
  THEN [thrown |-> "OverflowTrap", value |-> 0, log |-> log]
  ELSE [thrown |-> NoThrow, value |-> c.value, log |-> log]

\* the kind of a node: Literal, Unary, or the operation of a Binary
KindOf(node) == IF node.type = "Binary" THEN node.operation ELSE node.type

EnterEvent(path, node) ==
  [ev |-> "enter", node |-> path, kind |-> KindOf(node), value |-> 0]
LeaveEvent(path, node, value) ==
  [ev |-> "leave", node |-> path, kind |-> KindOf(node), value |-> value]

Left(path) == Append(path, "left")
Right(path) == Append(path, "right")

Leave(r, path, node) ==
  IF r.thrown # NoThrow THEN r
  ELSE [thrown |-> NoThrow, value |-> r.value,
        log |-> Append(r.log, LeaveEvent(path, node, r.value))]

RECURSIVE Evaluate(_, _, _, _)

\* RDParser::Literal::Evaluate
LiteralEvaluate(node, path, log, build) ==
  [thrown |-> NoThrow, value |-> node.value, log |-> log]

\* RDParser::Unary::Evaluate
UnaryEvaluate(node, path, log, build) ==
  Only({ IF r.thrown # NoThrow THEN r
         ELSE IntResult(CheckedNeg(r.value), build, r.log)
         : r \in {Evaluate(node.right, Right(path), log, build)} })

Arithmetic(operation, l, r) ==
  CASE operation = "Addition" -> CheckedAdd(l, r)
    [] operation = "Subtraction" -> CheckedSub(l, r)
    [] operation = "Multiplication" -> CheckedMul(l, r)

\* the cases Addition, Subtraction, Multiplication of Binary::Evaluate: the
\* build evaluates the left operand first, or the right one
ArithmeticEvaluate(node, path, log, build) ==
  IF build.leftFirst
  THEN Only({
         IF l.thrown # NoThrow THEN l
         ELSE Only({ IF r.thrown # NoThrow THEN r
                     ELSE IntResult(Arithmetic(node.operation, l.value, r.value),
                                    build, r.log)
                     : r \in {Evaluate(node.right, Right(path), l.log, build)} })
         : l \in {Evaluate(node.left, Left(path), log, build)} })
  ELSE Only({
         IF r.thrown # NoThrow THEN r
         ELSE Only({ IF l.thrown # NoThrow THEN l
                     ELSE IntResult(Arithmetic(node.operation, l.value, r.value),
                                    build, l.log)
                     : l \in {Evaluate(node.left, Left(path), r.log, build)} })
         : r \in {Evaluate(node.right, Right(path), log, build)} })

\* a division that tests the left operand for zero
DivisionEvaluate_TestsLeft(node, path, log, build) ==
  Only({
    IF right_value.thrown # NoThrow THEN right_value
    ELSE Only({
           IF left_value.thrown # NoThrow THEN left_value
           ELSE IF left_value.value = 0 \/ right_value.value = 0
           THEN [thrown |-> "DivideByZero", value |-> 0, log |-> left_value.log]
           ELSE IntResult(CheckedDiv(left_value.value, right_value.value), build,
                          left_value.log)
           : left_value \in {Evaluate(node.left, Left(path), right_value.log, build)} })
    : right_value \in {Evaluate(node.right, Right(path), log, build)} })

\* a division that evaluates its left operand first
DivisionEvaluate_LeftFirst(node, path, log, build) ==
  Only({
    IF left_value.thrown # NoThrow THEN left_value
    ELSE Only({
           IF right_value.thrown # NoThrow THEN right_value
           ELSE IF right_value.value = 0
           THEN [thrown |-> "DivideByZero", value |-> 0, log |-> right_value.log]
           ELSE IntResult(CheckedDiv(left_value.value, right_value.value), build,
                          right_value.log)
           : right_value \in {Evaluate(node.right, Right(path), left_value.log, build)} })
    : left_value \in {Evaluate(node.left, Left(path), log, build)} })

\* the case Division of Binary::Evaluate
DivisionEvaluate(node, path, log, build) ==
  Only({
    IF right_value.thrown # NoThrow THEN right_value
    ELSE IF right_value.value = 0
    THEN [thrown |-> "DivideByZero", value |-> 0, log |-> right_value.log]
    ELSE Only({
           IF left_value.thrown # NoThrow THEN left_value
           ELSE IntResult(CheckedDiv(left_value.value, right_value.value), build,
                          left_value.log)
           : left_value \in {Evaluate(node.left, Left(path), right_value.log, build)} })
    : right_value \in {Evaluate(node.right, Right(path), log, build)} })

\* RDParser::Binary::Evaluate
BinaryEvaluate(node, path, log, build) ==
  IF node.operation \in {"Addition", "Subtraction", "Multiplication"}
  THEN ArithmeticEvaluate(node, path, log, build)
  ELSE IF node.operation = "Division"
  THEN DivisionEvaluate(node, path, log, build)
  ELSE [thrown |-> "UnknownOperator", value |-> 0, log |-> log]

\* the virtual call Expression::Evaluate, logged on entry and on return
Evaluate(node, path, log, build) ==
  Only({ Leave(r, path, node)
         : r \in { CASE node.type = "Literal" ->
                          LiteralEvaluate(node, path, Append(log, EnterEvent(path, node)), build)
                     [] node.type = "Unary" ->
                          UnaryEvaluate(node, path, Append(log, EnterEvent(path, node)), build)
                     [] node.type = "Binary" ->
                          BinaryEvaluate(node, path, Append(log, EnterEvent(path, node)), build) } })

Builds == [leftFirst : BOOLEAN, overflowTraps : BOOLEAN]

(***************************************************************************)
(* The inputs: every string over Alphabet up to MaxLen, every string over  *)
(* LexAlphabet up to MaxLexLen, and the expressions of Tests.cpp with a    *)
(* few more of their kind.                                                 *)
(***************************************************************************)
Alphabet == {"0", "1", "2", "+", "-", "*", "/", "(", ")"}
LexAlphabet == {"1", "+", "(", " ", "\t", "t"}

Strings(A, n) == UNION {[1..k -> A] : k \in 0..n}

TestExpressions ==
  { <<"1"," ","+"," ","3"," ","+"," ","t","e","s","t">>,
    <<"1"," ","+"," ","3">>,
    <<"4"," ","+"," ","(","1","2"," ","/"," ","(","1"," ","*"," ","2",")",")">>,
    <<"1"," ","+"," ","4"," ","*"," ","-","2">>,
    <<"1"," ","-"," ","5"," ","*"," ","2">>,
    <<"1"," ","+"," ","3"," ","*"," ","4">>,
    <<"5"," ","/"," ","0">>,
    <<"5"," ","+"," ","6"," ","+"," ","4"," ","+">>,
    <<"5"," ","+"," ","6"," ","*","+"," ","4">>,
    <<"(","1"," ","+"," ","(","1","2"," ","*"," ","2",")"," ">>,
    <<"5"," ","+"," ","6",")"," ","*","+"," ","4">>,
    <<"5","("," ","+"," ","6"," ","*","+"," ","4">>,
    <<"5"," ","+"," ",")","6"," ","*","+"," ","4">>,
    <<"-","-","-","-","5","+","-","-","-","6","*","6">>,
    <<"5","+","6","*","6">> }

MoreExpressions ==
  { <<"5"," ","/"," ","(","1"," ","-"," ","1",")">>,
    <<"7","/","-","2">>,
    <<"-","7","/","2">>,
    <<"8","-","3","-","2">>,
    <<"8","/","4","/","2">>,
    <<"2","+","3","*","4","-","5">>,
    <<"(","1","/","0",")","/","(","2","/","0",")">>,
    <<"(","1","/","0","+","3">>,
    <<"1","/","0",")">>,
    <<"t","e"," ","s","t","\t","x">>,
    <<"9","9","9","9","9","9","9","9","9","9">>,
    <<"1","+","9","9","9","9","9","9","9","9","9","9">>,
    <<"2","1","4","7","4","8","3","6","4","7">>,
    <<"2","1","4","7","4","8","3","6","4","8">>,
    <<"2","1","4","7","4","8","3","6","4","7","+","1">>,
    <<"(","-","2","1","4","7","4","8","3","6","4","7","-","1",")","/","-","1">>,
    <<"6","5","5","3","6","*","6","5","5","3","6">> }

Inputs == Strings(Alphabet, MaxLen) \cup Strings(LexAlphabet, MaxLexLen)
            \cup TestExpressions \cup MoreExpressions

(***************************************************************************)
(* RDParser::Parse, in three steps: the reset and the tokenisation, the    *)
(* recursive descent with the check for leftover tokens, the evaluation.   *)
(* An exception leaves Parse at once: pc returns to "idle" and outcome     *)
(* records it.                                                             *)
(***************************************************************************)
NoNode == [type |-> "none"]
Running == [kind |-> "running", error |-> NoThrow, value |-> 0, detail |-> <<>>]
Failed(error, detail) ==
  [kind |-> "error", error |-> error, value |-> 0, detail |-> detail]
Returned(value) ==
  [kind |-> "value", error |-> NoThrow, value |-> value, detail |-> <<>>]

\* RDParser::RDParser and Lexer::Lexer
Init ==
  /\ expression = UNINITIALISED_EXPRESSION
  /\ token_container = <<>>
  /\ current_token_idx = 0
  /\ pc = "idle"
  /\ expr = <<>>
  /\ ast = NoNode
  /\ outcome = [kind |-> "none", error |-> NoThrow, value |-> 0, detail |-> <<>>]
  /\ trace = <<>>
  /\ evalLog = <<>>
  /\ calls = 0

\* Parse, lines 25 and 26: clear the lexer, tokenise
ParseLex(container, expression_, e) ==
  LET cleared == clearTokens(container, expression_)
  IN  Tokenise(cleared.token_container, e)

\* Parse, lines 29 to 37: build the AST from the cursor on, refuse leftover tokens
ParseTree(tc, idx, events) ==
  Only({ IF r.thrown = NoThrow /\ r.idx < getTokenCount(tc)
         THEN Throw("UnexpectedParentheses", <<>>, r)
         ELSE r
         : r \in {parseExpression(tc, [idx |-> idx, trace |-> events])} })

\* Parse, line 40: evaluate the AST
ParseValue(node, build) == Evaluate(node, <<>>, <<>>, build)

\* the first step of Parse: reset the cursor, clear the lexer, tokenise
ParseTokenise(e) ==
  /\ pc = "idle"
  /\ calls < MaxCalls
  /\ calls' = calls + 1
  /\ \E lexed \in {ParseLex(token_container, expression, e)} :
         /\ expr' = e
         /\ current_token_idx' = 0
         /\ token_container' = lexed.token_container
         /\ expression' = lexed.expression
         /\ IF lexed.thrown # NoThrow
            THEN pc' = "idle" /\ outcome' = Failed(lexed.thrown, lexed.detail)
            ELSE pc' = "tokenised" /\ outcome' = Running
  /\ ast' = NoNode
  /\ trace' = <<>>
  /\ evalLog' = <<>>

\* the second step of Parse: the recursive descent
ParseBuild ==
  /\ pc = "tokenised"
  /\ \E r \in {ParseTree(token_container, current_token_idx, trace)} :
         /\ current_token_idx' = r.idx
         /\ trace' = r.trace
         /\ IF r.thrown # NoThrow
            THEN pc' = "idle" /\ ast' = NoNode /\ outcome' = Failed(r.thrown, r.detail)
            ELSE pc' = "parsed" /\ ast' = r.node /\ outcome' = Running
  /\ UNCHANGED <<expression, token_container, expr, evalLog, calls>>

\* the last step of Parse: the evaluation, under one of the builds
ParseEvaluate ==
  /\ pc = "parsed"
  /\ \E build \in Builds :
       \E r \in {ParseValue(ast, build)} :
           /\ evalLog' = r.log
           /\ outcome' = IF r.thrown # NoThrow THEN Failed(r.thrown, <<>>)
                         ELSE Returned(r.value)
  /\ pc' = "idle"
  /\ ast' = NoNode
  /\ UNCHANGED <<expression, token_container, current_token_idx, expr, trace, calls>>

\* RDParser::Parse as a whole, on an instance whose lexer holds `container`
Parse(container, expression_, e, build) ==
  Only({
    IF lexed.thrown # NoThrow THEN Failed(lexed.thrown, lexed.detail)
    ELSE Only({
           IF tree.thrown # NoThrow THEN Failed(tree.thrown, tree.detail)
           ELSE Only({ IF value.thrown # NoThrow THEN Failed(value.thrown, <<>>)
                       ELSE Returned(value.value)
                       : value \in {ParseValue(tree.node, build)} })
           : tree \in {ParseTree(lexed.token_container, 0, <<>>)} })
    : lexed \in {ParseLex(container, expression_, e)} })

\* A fresh instance is called with any input; an instance that has been used
\* is called again with any of RepeatInputs.
RepeatInputs == TestExpressions \cup Strings(LexAlphabet, 1)
CallInputs == IF calls = 0 THEN Inputs ELSE RepeatInputs

Next ==
  \/ \E e \in CallInputs : ParseTokenise(e)
  \/ ParseBuild
  \/ ParseEvaluate

Spec == Init /\ [][Next]_vars

(***************************************************************************)
(* What the claims speak of.                                               *)
(***************************************************************************)
\* a Parse call has ended
CallEnded == pc = "idle" /\ outcome.kind # "none"

\* the failures of the tokenisation
LexicalFailures == {"InvalidToken", "EmptyExpression", "std::out_of_range"}

Tokenised == outcome.error \notin LexicalFailures

BinaryOperations == {"Addition", "Subtraction", "Multiplication", "Division"}

(***************************************************************************)
(* The reference evaluator of C1, by reduction and not by descent: the     *)
(* innermost parenthesised group is replaced by its value until none is    *)
(* left; a group without parentheses is operands (a run of minus signs and *)
(* a number) separated by operators, folded from the left.  ok is FALSE    *)
(* when the items are not of the grammar, a divisor is zero or a result    *)
(* leaves (INT_MIN, INT_MAX].                                              *)
(***************************************************************************)
RefItem(k, v) == [k |-> k, v |-> v]
RefItems(tokens) ==
  [i \in 1..Len(tokens) |-> RefItem(tokens[i].operation, tokens[i].value)]

RefFail == [ok |-> FALSE, v |-> 0, next |-> 0]
RefOk(v, next) == [ok |-> TRUE, v |-> v, next |-> next]

RefMagnitude(x) == IF x < 0 THEN -x ELSE x

RefFits(op, l, r) ==
  /\ l > INT_MIN /\ r > INT_MIN
  /\ CASE op = "Addition" ->
            (r >= 0 /\ l <= INT_MAX - r) \/ (r < 0 /\ l > INT_MIN - r)
       [] op = "Subtraction" ->
            (r >= 0 /\ l > INT_MIN + r) \/ (r < 0 /\ l <= INT_MAX + r)
       [] op = "Multiplication" ->
            r = 0 \/ RefMagnitude(l) <= INT_MAX \div RefMagnitude(r)
       [] op = "Division" -> r # 0

RefApply(op, l, r) ==
  CASE op = "Addition" -> l + r
    [] op = "Subtraction" -> l - r
    [] op = "Multiplication" -> l * r
    [] op = "Division" ->
         IF (l < 0) = (r < 0) THEN RefMagnitude(l) \div RefMagnitude(r)
         ELSE -(RefMagnitude(l) \div RefMagnitude(r))

RECURSIVE RefMinusRun(_, _)
RefMinusRun(items, i) ==
  IF i <= Len(items) /\ items[i].k = "Subtraction"
  THEN 1 + RefMinusRun(items, i + 1) ELSE 0

RefOperand(items, i) ==
  LET n == RefMinusRun(items, i)
      j == i + n
  IN  IF j > Len(items) \/ items[j].k # "Literal" \/ items[j].v = INT_MIN THEN RefFail
      ELSE RefOk(IF n % 2 = 0 THEN items[j].v ELSE -items[j].v, j + 1)

RECURSIVE RefFold(_, _, _)
RefFold(items, i, acc) ==
  IF i > Len(items) THEN RefOk(acc, i)
  ELSE IF items[i].k \notin BinaryOperations THEN RefFail
  ELSE LET r == RefOperand(items, i + 1)
       IN  IF ~r.ok \/ ~RefFits(items[i].k, acc, r.v) THEN RefFail
           ELSE RefFold(items, r.next, RefApply(items[i].k, acc, r.v))

RefFlat(items) ==
  LET first == RefOperand(items, 1)
  IN  IF ~first.ok THEN RefFail ELSE RefFold(items, first.next, first.v)

RefCloses(items) == {i \in 1..Len(items) : items[i].k = "R_Brace"}
RefOpens(items, close) == {i \in 1..(close - 1) : items[i].k = "L_Brace"}
RefMin(S) == CHOOSE x \in S : \A y \in S : x <= y
RefMax(S) == CHOOSE x \in S : \A y \in S : x >= y

RECURSIVE RefEval(_)
RefEval(items) ==
  IF \A i \in 1..Len(items) : items[i].k \notin {"L_Brace", "R_Brace"}
  THEN RefFlat(items)
  ELSE IF RefCloses(items) = {} THEN RefFail
  ELSE LET close == RefMin(RefCloses(items))
       IN  IF RefOpens(items, close) = {} THEN RefFail
           ELSE LET open == RefMax(RefOpens(items, close))
                    inner == RefFlat(SubSeq(items, open + 1, close - 1))
                IN  IF ~inner.ok THEN RefFail
                    ELSE RefEval(SubSeq(items, 1, open - 1)
                                   \o <<RefItem("Literal", inner.v)>>
                                   \o SubSeq(items, close + 1, Len(items)))

\* C1: for every token sequence of the grammar whose evaluation meets no zero
\* divisor and stays within the integer bounds, Parse returns the value of the
\* reference evaluator: the four binary operators of equal precedence folded
\* from the left, a parenthesised group one operand, a run of n minus signs
\* the factor (-1)^n, division truncating toward zero.
C1_ReferenceValue ==
  (CallEnded /\ Tokenised /\ RefEval(RefItems(token_container)).ok)
    => outcome = Returned(RefEval(RefItems(token_container)).v)

\* "2 + 3 * 4 - 5" has been parsed and has given (2 + 3) * 4 - 5 = 15
C1_Witness ==
  /\ CallEnded
  /\ expr = <<"2", "+", "3", "*", "4", "-", "5">>
  /\ RefEval(RefItems(token_container)).ok
  /\ outcome = Returned(15)

\* the error kinds errors.h enumerates
EnumeratedErrors ==
  {"InvalidToken", "EmptyExpression", "TokenIndexOutOfRange",
   "ParenthesesMismatch", "UnexpectedParentheses", "UnexpectedToken",
   "DivideByZero", "UnknownOperator"}

\* the characters of C2's inputs
C2_Characters == Digits \cup PunctuationChars \cup {" ", "\t"}

\* C2: for every input made only of digits, + - * / ( ) and whitespace, Parse
\* ends with an integer or with one of the enumerated error kinds; no other
\* failure (an exception of another kind, a trap on arithmetic overflow) is
\* reachable.
C2_OnlyEnumeratedOutcomes ==
  (CallEnded /\ \A i \in 1..Len(expr) : expr[i] \in C2_Characters)
    => (outcome.kind = "value" \/ outcome.error \in EnumeratedErrors)

(***************************************************************************)
(* C3, the outcome of the tokenisation from the characters alone.          *)
(***************************************************************************)
HasCharOutside(e, allowed) == \E i \in 1..Len(e) : e[i] \notin allowed
HasTokenChar(e) == \E i \in 1..Len(e) : e[i] \in Digits \cup PunctuationChars

RECURSIVE Flatten(_)
Flatten(ss) == IF ss = <<>> THEN <<>> ELSE Head(ss) \o Flatten(Tail(ss))

Raws(tokens) == [i \in 1..Len(tokens) |-> tokens[i].raw]
IsWhitespace(c) == c \in {" ", "\t"}
WithoutWhitespace(e) == SelectSeq(e, LAMBDA c : ~IsWhitespace(c))

\* C3 for a set `allowed` of accepted characters: InvalidToken iff a character
\* is outside it, otherwise EmptyExpression iff there is no digit, operator or
\* parenthesis, otherwise neither of the two and, when the tokens are all made
\* (no digit run beyond the int range), they are the input without whitespace
C3_Priority(allowed) ==
  CallEnded =>
    /\ outcome.error = "InvalidToken" <=> HasCharOutside(expr, allowed)
    /\ ~HasCharOutside(expr, allowed) =>
         (outcome.error = "EmptyExpression" <=> ~HasTokenChar(expr))
    /\ (~HasCharOutside(expr, allowed) /\ HasTokenChar(expr)) =>
         /\ outcome.error \notin {"InvalidToken", "EmptyExpression"}
         /\ outcome.error # "std::out_of_range"
              => Flatten(Raws(token_container)) = WithoutWhitespace(expr)

Count == Len(token_container)
\* the operation of the token at cursor position i (0-based), "end" past the end
OperationAt(i) ==
  IF i >= 0 /\ i < Count THEN token_container[i + 1].operation ELSE "end"

RECURSIVE CountBefore(_, _)
CountBefore(i, op) ==
  IF i <= 0 THEN 0
  ELSE CountBefore(i - 1, op) + (IF OperationAt(i - 1) = op THEN 1 ELSE 0)

\* the parentheses consumed and still open at cursor position i
OpenDepth(i) == CountBefore(i, "L_Brace") - CountBefore(i, "R_Brace")

\* the cursor stands right after a complete operand
AfterOperand(i) == OperationAt(i - 1) \in {"Literal", "R_Brace"}

\* the cursor stands where an operand is expected: at the start, after a binary
\* operator or a unary minus, after an opening parenthesis
OperandExpected(i) ==
  i = 0 \/ OperationAt(i - 1) \in BinaryOperations \cup {"L_Brace"}

\* the token sequence with k closing parentheses appended
RECURSIVE Closed(_, _)
Closed(tokens, k) ==
  IF k = 0 THEN tokens
  ELSE Closed(Append(tokens, [operation |-> "R_Brace",
                              value |-> TOKEN_VALUE_NOT_APPLICABLE,
                              raw |-> <<")">>]), k - 1)

\* the reference grammar: the items reduce, whatever their values
RefShape(tokens) ==
  [i \in 1..Len(tokens) |->
     RefItem(IF tokens[i].operation \in {"Multiplication", "Division"}
             THEN "Addition" ELSE tokens[i].operation, 1)]
RefGrammatical(tokens) == RefEval(RefShape(tokens)).ok

\* C5: with a '(' consumed and the enclosed Expression parsed without error,
\* Parse fails with ParenthesesMismatch if and only if the token at the cursor
\* is not a ')' or the tokens are exhausted; in particular every token
\* sequence that lacks only closing parentheses at its end to be of the
\* grammar fails with ParenthesesMismatch and with no other error kind.
C5_ParenthesesMismatch ==
  (CallEnded /\ Tokenised) =>
    /\ outcome.error = "ParenthesesMismatch"
         <=> /\ OpenDepth(current_token_idx) > 0
             /\ AfterOperand(current_token_idx)
             /\ OperationAt(current_token_idx) # "R_Brace"
    /\ (\E k \in 1..MaxClose : RefGrammatical(Closed(token_container, k)))
         => outcome.error = "ParenthesesMismatch"

\* "(1 + (12 * 2) " has failed with ParenthesesMismatch, its tokens exhausted
C5_Witness ==
  /\ CallEnded
  /\ expr = <<"(","1"," ","+"," ","(","1","2"," ","*"," ","2",")"," ">>
  /\ outcome.error = "ParenthesesMismatch"
  /\ current_token_idx = Count
  /\ RefGrammatical(Closed(token_container, 1))

\* the last event of the descent
LastEvent == trace[Len(trace)]

ClampedIndex == IF current_token_idx > Count - 1 THEN Count - 1 ELSE current_token_idx

\* C6: whenever an operand is expected and the token at the cursor is neither a
\* Literal nor a '(' nor a '-', Parse fails with UnexpectedToken carrying the
\* raw text of the token at the cursor, or of the last token when the cursor
\* is past the end; the index of the report lies in [0, token count).
C6_UnexpectedToken ==
  (CallEnded /\ Tokenised) =>
    /\ outcome.error = "UnexpectedToken"
         <=> /\ OperandExpected(current_token_idx)
             /\ OperationAt(current_token_idx) \notin {"Literal", "L_Brace", "Subtraction"}
    /\ outcome.error = "UnexpectedToken" =>
         /\ trace # <<>>
         /\ LastEvent = GetTokenEvent(ClampedIndex)
         /\ LastEvent.idx >= 0 /\ LastEvent.idx < Count
         /\ outcome.detail = token_container[ClampedIndex + 1].raw

\* "5 + 6 + 4 +" has failed with UnexpectedToken "+", the cursor past the end
C6_Witness ==
  /\ CallEnded
  /\ expr = <<"5"," ","+"," ","6"," ","+"," ","4"," ","+">>
  /\ outcome.error = "UnexpectedToken"
  /\ outcome.detail = <<"+">>
  /\ current_token_idx = Count

(***************************************************************************)
(* C7 and C10: the events of the evaluation.                               *)
(***************************************************************************)
\* the index in evalLog of the event ev of the node at path, 0 when there is none
Pos(ev, path) ==
  IF \E j \in 1..Len(evalLog) : evalLog[j].ev = ev /\ evalLog[j].node = path
  THEN CHOOSE j \in 1..Len(evalLog) : evalLog[j].ev = ev /\ evalLog[j].node = path
  ELSE 0

Parent(path) == SubSeq(path, 1, Len(path) - 1)

\* the evaluation has stopped on a Division node's right operand, of value zero
StoppedOnZeroDivisor ==
  /\ evalLog # <<>>
  /\ LET last == evalLog[Len(evalLog)]
     IN  /\ last.ev = "leave" /\ last.value = 0
         /\ last.node # <<>> /\ last.node[Len(last.node)] = "right"
         /\ Pos("enter", Parent(last.node)) # 0
         /\ evalLog[Pos("enter", Parent(last.node))].kind = "Division"
         /\ Pos("enter", Left(Parent(last.node))) = 0

\* C7: Parse fails with DivideByZero if and only if the whole token sequence is
\* of the grammar (every token consumed, no lexical or syntax error) and the
\* evaluation reaches a Division node whose right operand evaluates to zero;
\* then the left operand is not evaluated, no division is made and no integer
\* is returned.
C7_DivideByZero ==
  CallEnded =>
    (outcome.error = "DivideByZero"
       <=> /\ Tokenised
           /\ RefGrammatical(token_container)
           /\ current_token_idx = Count
           /\ StoppedOnZeroDivisor
           /\ outcome.kind = "error")

\* "5 / (1 - 1)" has failed with DivideByZero on a computed zero
C7_Witness ==
  /\ CallEnded
  /\ expr = <<"5"," ","/"," ","(","1"," ","-"," ","1",")">>
  /\ outcome.error = "DivideByZero"
  /\ StoppedOnZeroDivisor

\* C8: over any sequence of Parse calls on one instance, failed calls included,
\* after each call the lexer's token count is the one a fresh lexer derives
\* from that call's input, and the call's outcome is one the same input has on
\* a fresh instance.
C8_NoTokenLeak ==
  CallEnded =>
    /\ getTokenCount(token_container)
         = getTokenCount(Tokenise(<<>>, expr).token_container)
    /\ \E build \in Builds :
         outcome = Parse(<<>>, UNINITIALISED_EXPRESSION, expr, build)

\* a second call on the instance, "1 + 3", has ended with 4 and three tokens
C8_Witness ==
  /\ CallEnded
  /\ calls = 2
  /\ expr = <<"1"," ","+"," ","3">>
  /\ outcome = Returned(4)
  /\ getTokenCount(token_container) = 3

\* the characters Tokenise accepts
AcceptedChars == Digits \cup PunctuationChars \cup {" "}

\* the maximal runs of characters outside AcceptedChars, from position i on
RECURSIVE RunEnd(_, _)
RunEnd(e, i) ==
  IF i + 1 <= Len(e) /\ e[i + 1] \notin AcceptedChars THEN RunEnd(e, i + 1) ELSE i

RECURSIVE MaximalRuns(_, _)
MaximalRuns(e, i) ==
  IF i > Len(e) THEN <<>>
  ELSE IF e[i] \in AcceptedChars THEN MaximalRuns(e, i + 1)
  ELSE <<SubSeq(e, i, RunEnd(e, i))>> \o MaximalRuns(e, RunEnd(e, i) + 1)

\* one substring of length one for every character outside AcceptedChars
SingleCharacters(e) ==
  LET bad == SelectSeq(e, LAMBDA c : c \notin AcceptedChars)
  IN  [i \in 1..Len(bad) |-> <<bad[i]>>]

Entered(kinds) ==
  {evalLog[j].node : j \in {i \in 1..Len(evalLog) :
                              evalLog[i].ev = "enter" /\ evalLog[i].kind \in kinds}}

\* the operand `first` of node p is evaluated, from start to end, before the
\* operand `second` starts
Before(first, second) ==
  /\ Pos("enter", first) # 0
  /\ Pos("enter", second) # 0
       => /\ Pos("leave", first) # 0
          /\ Pos("enter", first) < Pos("leave", first)
          /\ Pos("leave", first) < Pos("enter", second)

\* C10 (as claimed): in the evaluation of every Binary node, whatever its
\* operator, the left operand's evaluation starts and ends before the right
\* operand's starts.
C10_Original ==
  \A p \in Entered(BinaryOperations) : Before(Left(p), Right(p))

\* C10 (amended): in the evaluation of a Division node the right operand's
\* evaluation starts and ends before the left operand's starts, and the left
\* operand is evaluated only when the right one is not zero; in the evaluation
\* of an Addition, Subtraction or Multiplication node the two operands are
\* evaluated one wholly before the other, in the order the build chose.
C10_EvaluationOrder ==
  /\ \A p \in Entered({"Division"}) :
       /\ Before(Right(p), Left(p))
       /\ Pos("enter", Left(p)) # 0 => evalLog[Pos("leave", Right(p))].value # 0
  /\ \A p \in Entered({"Addition", "Subtraction", "Multiplication"}) :
       Before(Left(p), Right(p)) \/ Before(Right(p), Left(p))

\* "8/4/2" has been evaluated: in the root Division the right operand 2 was
\* left before the left operand 8/4 was entered
C10_Witness ==
  /\ CallEnded
  /\ expr = <<"8", "/", "4", "/", "2">>
  /\ outcome = Returned(1)
  /\ Pos("leave", <<"right">>) # 0
  /\ Pos("leave", <<"right">>) < Pos("enter", <<"left">>)


(***************************************************************************)
(* C11: the cursor                                                         *)
(***************************************************************************)
\* enum class TokenOperation
TokenOperations ==
  {"None", "Literal", "L_Brace", "R_Brace",
   "Subtraction", "Addition", "Multiplication", "Division"}

\* the increments of the cursor during the descent, in order
Advances == SelectSeq(trace, LAMBDA ev : ev.op = "advance")

\* a call of Parse has tokenised its input and has not been followed by another
AfterTokenisation ==
  pc \in {"tokenised", "parsed"} \/ (CallEnded /\ Tokenised)

\* one call of tokenMatchAndAdvance(operation) with the cursor at i, on the
\* tokens of the state: it advances by one exactly on a token of that kind
MatchContract(i, operation) ==
  \A r \in {tokenMatchAndAdvance(token_container, [idx |-> i, trace |-> <<>>],
                                 operation)} :
    /\ r.thrown = NoThrow
    /\ r.matched = (i < Count /\ OperationAt(i) = operation)
    /\ r.idx = IF i < Count /\ OperationAt(i) = operation THEN i + 1 ELSE i

\* C11: Parse starts with the cursor at 0; the cursor changes only in
\* tokenMatchAndAdvance, which advances it by exactly one when a token exists
\* at the cursor and has the requested kind and otherwise leaves it alone; so
\* the cursor never decreases and stays within 0 .. token count; and the
\* tokens are those of the tokenisation until the call ends.
C11_Cursor ==
  /\ (pc = "tokenised" \/ (CallEnded /\ ~Tokenised)) => current_token_idx = 0
  /\ current_token_idx = Len(Advances)
  /\ \A k \in 1..Len(Advances) :
       /\ Advances[k].from = k - 1
       /\ Advances[k].idx = k
  /\ \A j \in 1..Len(trace) :
       trace[j].op = "advance" =>
         /\ j > 1
         /\ trace[j - 1] = GetTokenEvent(trace[j].from)
         /\ trace[j].from < Count
  /\ 0 <= current_token_idx /\ current_token_idx <= Count
  /\ AfterTokenisation =>
       /\ token_container = Tokenise(<<>>, expr).token_container
       /\ \A i \in 0..Count : \A operation \in TokenOperations :
            MatchContract(i, operation)

\* the second call on an instance has consumed its three tokens one by one,
\* from a cursor reset to 0
C11_Witness ==
  /\ calls = 2
  /\ CallEnded
  /\ expr = <<"1"," ","+"," ","3">>
  /\ outcome = Returned(4)
  /\ Len(Advances) = 3
  /\ current_token_idx = 3


(***************************************************************************)
(* C12: the defensive errors                                               *)
(***************************************************************************)
\* every Binary node of the tree carries one of the four operators
RECURSIVE KnownOperators(_)
KnownOperators(node) ==
  CASE node.type = "Binary" ->
         /\ node.operation \in BinaryOperations
         /\ KnownOperators(node.left)
         /\ KnownOperators(node.right)
    [] node.type = "Unary" -> KnownOperators(node.right)
    [] OTHER -> TRUE

\* the getToken calls of the descent, in order
Lookups == SelectSeq(trace, LAMBDA ev : ev.op = "getToken")

\* a getToken at cursor - 1, just after the cursor has advanced
LookBehindAt(j) ==
  /\ trace[j].op = "advance"
  /\ j < Len(trace)
  /\ trace[j + 1] = GetTokenEvent(trace[j].idx - 1)

\* C12: no getToken call of a parse (the lookup of tokenMatchAndAdvance, the
\* look-behind at cursor - 1 of parseBinary and parsePrimary, the clamped
\* lookup of the offending token) has an index outside [0, token count), so
\* Parse never fails with TokenIndexOutOfRange; and every Binary node is
\* built with Addition, Subtraction, Multiplication or Division, so Parse
\* never fails with UnknownOperator.
C12_DefensiveUnreachable ==
  /\ outcome.error \notin {"TokenIndexOutOfRange", "UnknownOperator"}
  /\ \A k \in 1..Len(Lookups) :
       /\ 0 <= Lookups[k].idx
       /\ Lookups[k].idx < Count
       /\ getToken(token_container, Lookups[k].idx).thrown = NoThrow
  /\ KnownOperators(ast)

\* "5 + 6 + 4 +": the look-behinds have read the tokens just consumed and the
\* report reads the last token, the cursor being past the end
C12_Witness ==
  /\ CallEnded
  /\ outcome.error = "UnexpectedToken"
  /\ Count = 6
  /\ current_token_idx = Count
  /\ LastEvent = GetTokenEvent(Count - 1)
  /\ \E j \in 1..Len(trace) : LookBehindAt(j) /\ OperationAt(trace[j].from) = "Literal"
  /\ \E j \in 1..Len(trace) : LookBehindAt(j) /\ OperationAt(trace[j].from) = "Addition"

=============================================================================
